---------------------------- MODULE Spec2Model ----------------------------
(***************************************************************************)
(* Model of mm.c, an explicit-free-list allocator with boundary tags,      *)
(* first-fit placement and four-way coalescing.                            *)
(*                                                                         *)
(* The heap is a sparse word memory: mem maps a byte address to the        *)
(* 8-byte word last stored there.  A header or footer word is a record     *)
(* of kind "hdr" with the two bit-fields of header_t, allocated and        *)
(* block_size; a link word (body.next at block+8, body.prev at block+16)   *)
(* is a record of kind "ptr" holding an address, NULL = 0.                 *)
(* An address that is not in DOMAIN mem holds no value the allocator       *)
(* knows (never written, or payload of a block handed to the caller): a    *)
(* read of it stops TLC with an error, so a run that ends without error    *)
(* also shows that the allocator reads only words it wrote.                *)
(*                                                                         *)
(* All addresses and sizes are in bytes.  TLC's integers are 32-bit, so a  *)
(* size_t or uint32_t value that may exceed 2^31-1 (the request and the    *)
(* adjusted size in mm_malloc) is a little-endian sequence of 16-bit       *)
(* limbs.                                                                  *)
(***************************************************************************)
EXTENDS Integers, Sequences, FiniteSets, TLC

VARIABLES mem, prologue, freerootptr, mem_brk, live, op, calls

vars == <<mem, prologue, freerootptr, mem_brk, live, op, calls>>

-----------------------------------------------------------------------------
(* Program constants                                                       *)

NULL == 0
WSIZE == 8
CHUNKSIZE == 2^16
HeaderSize == 8
OVERHEAD == HeaderSize + HeaderSize
MIN_BLOCK_SIZE == 32
FREE == 0
ALLOC == 1

(* Bounds of the model *)
MaxLive == 3
MaxCalls == 6
MaxChunks == 2

(* The growth primitive: first address it grants, and the address it never
   grows past (memlib's mem_start_brk and mem_max_addr). *)
mem_start_brk == 4096
mem_max_addr == mem_start_brk + MaxChunks * CHUNKSIZE

-----------------------------------------------------------------------------
(* size_t (4 limbs) and uint32_t (2 limbs) values                          *)

Limb == 2^16

SizeT(n) == <<n % Limb, n \div Limb, 0, 0>>
U32(n) == <<n % Limb, n \div Limb>>

RECURSIVE AddAt(_, _, _)
AddAt(x, i, c) ==
    IF c = 0 \/ i > Len(x) THEN x
    ELSE LET s == x[i] + c
         IN  AddAt([x EXCEPT ![i] = s % Limb], i + 1, s \div Limb)

(* x + k in the width of x (the carry out of the top limb is dropped) *)
AddK(x, k) == AddAt(x, 1, k)

(* x >> 3 and x << 3 in the width of x *)
Shr3(x) ==
    [i \in 1..Len(x) |->
        (x[i] \div 8) + (IF i < Len(x) THEN (x[i + 1] % 8) * (Limb \div 8) ELSE 0)]

Shl3(x) ==
    [i \in 1..Len(x) |->
        ((x[i] * 8) % Limb) + (IF i > 1 THEN x[i - 1] \div (Limb \div 8) ELSE 0)]

(* conversion of a uint32_t to size_t *)
ExtendU64(x) == x \o <<0, 0>>

(* conversion of a size_t to uint32_t *)
TruncU32(x) == SubSeq(x, 1, 2)

IsZero(x) == \A i \in 1..Len(x) : x[i] = 0

(* the value fits a TLC integer (is below 2^31) *)
FitsInt(x) == x[2] < 2^15 /\ \A i \in 3..Len(x) : x[i] = 0

Val(x) == x[1] + x[2] * Limb

(* x < c, x <= c, x > c for an integer c below 2^31 *)
LtInt(x, c) == FitsInt(x) /\ Val(x) < c
LeqInt(x, c) == FitsInt(x) /\ Val(x) <= c
GtInt(x, c) == ~LeqInt(x, c)

-----------------------------------------------------------------------------
(* Memory access.  A heap value h is [mem, freerootptr, prologue, brk].    *)

Undef == 0 - 1

(* A store outside the region granted so far has no defined outcome: it
   stops TLC with an error. *)
Segv == CHOOSE x \in {} : TRUE

Put(h, a, v) ==
    IF a >= mem_start_brk /\ a < h.brk
    THEN (a :> v) @@ h.mem
    ELSE Segv

(* The header_t at address a.  A word that holds no header (no value, or a
   link) gives a header of undefined fields: the store of one bit-field
   leaves the other undefined until it is stored too. *)
Hdr(allocated, block_size) ==
    [kind |-> "hdr", allocated |-> allocated, block_size |-> block_size]

Ptr(p) == [kind |-> "ptr", ptr |-> p]

Word(m, a) == IF a \in DOMAIN m /\ m[a].kind = "hdr" THEN m[a]
              ELSE Hdr(Undef, Undef)

(* p->allocated = v *)
SetAlloc(h, p, v) ==
    [h EXCEPT !.mem = Put(h, p, [Word(h.mem, p) EXCEPT !.allocated = v])]

(* p->block_size = v: a 31-bit field, and every v stored is below 2^31 *)
SetSize(h, p, v) ==
    [h EXCEPT !.mem = Put(h, p, [Word(h.mem, p) EXCEPT !.block_size = v])]

(* A read of a field the word at p does not hold stops TLC with an error. *)
GetAlloc(h, p) == h.mem[p].allocated
GetSize(h, p) == h.mem[p].block_size

GET_NEXT(h, bp) == h.mem[bp + 8].ptr
GET_PREV(h, bp) == h.mem[bp + 16].ptr
SET_NEXT(h, bp, np) == [h EXCEPT !.mem = Put(h, bp + 8, Ptr(np))]
SET_PREV(h, bp, np) == [h EXCEPT !.mem = Put(h, bp + 16, Ptr(np))]

SetRoot(h, b) == [h EXCEPT !.freerootptr = b]

get_footer(h, block) == block + GetSize(h, block) - HeaderSize

-----------------------------------------------------------------------------
(* The growth primitive (memlib's mem_sbrk): grants incr bytes right after *)
(* the region granted so far, or fails.  avail is the environment's        *)
(* answer; the region never grows past mem_max_addr.                       *)

mem_sbrk_ok(h, incr, avail) ==
    avail /\ FitsInt(incr) /\ Val(incr) <= mem_max_addr - h.brk

mem_sbrk(h, incr) == [h EXCEPT !.brk = h.brk + Val(incr)]

-----------------------------------------------------------------------------
(* The functions of mm.c.  Each takes the heap h and answers the heap it   *)
(* leaves.  The statements of a function are the local operators s1, s2,   *)
(* ..., in the order of the code; each takes the heap g left by the        *)
(* statement before it.                                                    *)

(* mm_init *)
mm_init(h, avail) ==
    IF ~mem_sbrk_ok(h, SizeT(CHUNKSIZE), avail)
    THEN [h |-> [h EXCEPT !.prologue = Undef], ret |-> 0 - 1]
    ELSE
    LET s1(g) == [mem_sbrk(g, SizeT(CHUNKSIZE)) EXCEPT !.prologue = g.brk]
        s2(g) == SetSize(SetAlloc(g, g.prologue, ALLOC), g.prologue, HeaderSize)
        init_block(g) == g.prologue + HeaderSize
        s3(g) == SetSize(SetAlloc(g, init_block(g), FREE), init_block(g),
                         CHUNKSIZE - OVERHEAD)
        s4(g) == SetRoot(g, init_block(g))
        s5(g) == SET_PREV(SET_NEXT(g, g.freerootptr, NULL), g.freerootptr, NULL)
        s6(g) == LET init_footer == get_footer(g, init_block(g))
                 IN  SetSize(SetAlloc(g, init_footer, FREE), init_footer,
                             GetSize(g, init_block(g)))
        s7(g) == LET epilogue == init_block(g) + GetSize(g, init_block(g))
                 IN  SetSize(SetAlloc(g, epilogue, ALLOC), epilogue, 0)
    IN  [h |-> s7(s6(s5(s4(s3(s2(s1(h))))))), ret |-> 0]

-----------------------------------------------------------------------------
(* place: put an asize-byte allocated block at the start of free block     *)
(* block, splitting when the remainder is at least MIN_BLOCK_SIZE.  The    *)
(* callers pass asize <= block->block_size, so the size_t difference does  *)
(* not wrap.                                                               *)

(* place_split_new that takes block out of the list and puts new_block at
   the root *)
place_split_new_rooted(h, block, new_block, split_size) ==
    LET s1(g) == SetAlloc(SetSize(g, new_block, split_size), new_block, FREE)
        s2(g) == LET new_footer == get_footer(g, new_block)
                 IN  SetAlloc(SetSize(g, new_footer, split_size), new_footer, FREE)
        s3(g) == IF GET_PREV(g, block) # NULL
                 THEN SET_NEXT(g, GET_PREV(g, block), GET_NEXT(g, block)) ELSE g
        s4(g) == IF GET_NEXT(g, block) # NULL
                 THEN SET_PREV(g, GET_NEXT(g, block), GET_PREV(g, block)) ELSE g
        s5(g) == IF g.freerootptr = block THEN SetRoot(g, GET_NEXT(g, block)) ELSE g
        s6(g) == SET_PREV(SET_NEXT(g, new_block, g.freerootptr), new_block, NULL)
        s7(g) == IF g.freerootptr # NULL
                 THEN SET_PREV(g, g.freerootptr, new_block) ELSE g
        s8(g) == SET_PREV(SET_NEXT(SetRoot(g, new_block), block, NULL), block, NULL)
    IN  s8(s7(s6(s5(s4(s3(s2(s1(h))))))))

(* the statements of the split from new_block on *)
place_split_new(h, block, new_block, split_size) ==
    LET s1(g) == SetAlloc(SetSize(g, new_block, split_size), new_block, FREE)
        s2(g) == LET new_footer == get_footer(g, new_block)
                 IN  SetAlloc(SetSize(g, new_footer, split_size), new_footer, FREE)
        s3(g) == IF GET_PREV(g, block) # NULL
                 THEN SET_NEXT(g, GET_PREV(g, block), new_block) ELSE g
        s4(g) == IF GET_NEXT(g, block) # NULL
                 THEN SET_PREV(g, GET_NEXT(g, block), new_block) ELSE g
        s5(g) == SET_NEXT(g, new_block, GET_NEXT(g, block))
        s6(g) == SET_PREV(g, new_block, GET_PREV(g, block))
        s7(g) == SET_PREV(SET_NEXT(g, block, NULL), block, NULL)
        s8(g) == IF GET_PREV(g, new_block) = NULL THEN SetRoot(g, new_block) ELSE g
    IN  s8(s7(s6(s5(s4(s3(s2(s1(h))))))))

(* place_split that gives the remainder 8 bytes less than are left *)
place_split_short(h, block, asize, split_size) ==
    LET s1(g) == SetAlloc(SetSize(g, block, asize), block, ALLOC)
        s2(g) == LET footer == get_footer(g, block)
                 IN  SetAlloc(SetSize(g, footer, asize), footer, ALLOC)
        s3(g) == place_split_new(g, block, block + GetSize(g, block),
                                 split_size - HeaderSize)
    IN  s3(s2(s1(h)))

place_split(h, block, asize, split_size) ==
    LET s1(g) == SetAlloc(SetSize(g, block, asize), block, ALLOC)
        s2(g) == LET footer == get_footer(g, block)
                 IN  SetAlloc(SetSize(g, footer, asize), footer, ALLOC)
        s3(g) == place_split_new(g, block, block + GetSize(g, block), split_size)
    IN  s3(s2(s1(h)))

(* place_whole without the unlinking: the block is marked allocated and
   stays in the free list. *)
place_whole_linked(h, block) ==
    LET s1(g) == SetAlloc(g, block, ALLOC)
        s2(g) == SetAlloc(g, get_footer(g, block), ALLOC)
    IN  s2(s1(h))

place_whole(h, block) ==
    LET s1(g) == SetAlloc(g, block, ALLOC)
        s2(g) == SetAlloc(g, get_footer(g, block), ALLOC)
        s3(g) == IF GET_PREV(g, block) # NULL
                 THEN SET_NEXT(g, GET_PREV(g, block), GET_NEXT(g, block)) ELSE g
        s4(g) == IF GET_NEXT(g, block) # NULL
                 THEN SET_PREV(g, GET_NEXT(g, block), GET_PREV(g, block)) ELSE g
        s5(g) == IF GET_PREV(g, block) = NULL /\ GET_NEXT(g, block) # NULL
                 THEN SetRoot(g, GET_NEXT(g, block)) ELSE g
        s6(g) == IF GET_PREV(g, block) = NULL /\ GET_NEXT(g, block) = NULL
                 THEN SetRoot(g, NULL) ELSE g
        s7(g) == SET_PREV(SET_NEXT(g, block, NULL), block, NULL)
    IN  s7(s6(s5(s4(s3(s2(s1(h)))))))

(* place that splits only when the remainder is at least twice
   MIN_BLOCK_SIZE *)
place_thrifty(h, block, asize) ==
    LET split_size == GetSize(h, block) - asize
    IN  IF split_size >= 2 * MIN_BLOCK_SIZE
        THEN place_split(h, block, asize, split_size)
        ELSE place_whole(h, block)

place(h, block, asize) ==
    LET split_size == GetSize(h, block) - asize
    IN  IF split_size >= MIN_BLOCK_SIZE
        THEN place_split(h, block, asize, split_size)
        ELSE place_whole(h, block)

-----------------------------------------------------------------------------
(* find_fit: first fit over the free list.  asize is a uint32_t value.  The *)
(* loop of the code does not end on a cyclic list; the walk here gives up  *)
(* after more steps than the heap has words and answers Undef.             *)

RECURSIVE find_fit_from(_, _, _, _)
find_fit_from(h, b, asize, fuel) ==
    IF b = NULL THEN NULL
    ELSE IF fuel = 0 THEN Undef
    ELSE IF LeqInt(asize, GetSize(h, b)) THEN b
    ELSE find_fit_from(h, GET_NEXT(h, b), asize, fuel - 1)

(* find_fit with < in place of <= *)
find_fit_strict(h, asize) ==
    find_fit_from(h, h.freerootptr, AddK(asize, 1), Cardinality(DOMAIN h.mem) + 1)

(* find_fit that starts at the root's successor when there is one *)
find_fit_second(h, asize) ==
    find_fit_from(h,
                  IF h.freerootptr # NULL /\ GET_NEXT(h, h.freerootptr) # NULL
                  THEN GET_NEXT(h, h.freerootptr) ELSE h.freerootptr,
                  asize, Cardinality(DOMAIN h.mem) + 1)

find_fit(h, asize) ==
    find_fit_from(h, h.freerootptr, asize, Cardinality(DOMAIN h.mem) + 1)

-----------------------------------------------------------------------------
(* coalesce: boundary-tag coalescing of the free block block.              *)
(* Each case answers [h, block]: the heap and the merged block.            *)

(* coalesce_case1 whose second branch leaves the root where it was *)
coalesce_case1_unrooted(h, block) ==
    LET a1(g) == SetRoot(g, block)
        a2(g) == SET_NEXT(g, g.freerootptr, NULL)
        a3(g) == SET_PREV(g, g.freerootptr, NULL)
        b1(g) == SET_NEXT(g, block, g.freerootptr)
        b2(g) == SET_PREV(g, g.freerootptr, block)
        b4(g) == SET_PREV(g, block, NULL)
    IN  [h |-> IF h.freerootptr = NULL \/ h.freerootptr = block
               THEN a3(a2(a1(h)))
               ELSE b4(b2(b1(h))),
         block |-> block]

(* Case 1: both neighbours allocated *)
coalesce_case1(h, block) ==
    LET a1(g) == SetRoot(g, block)
        a2(g) == SET_NEXT(g, g.freerootptr, NULL)
        a3(g) == SET_PREV(g, g.freerootptr, NULL)
        b1(g) == SET_NEXT(g, block, g.freerootptr)
        b2(g) == SET_PREV(g, g.freerootptr, block)
        b3(g) == SetRoot(g, block)
        b4(g) == SET_PREV(g, block, NULL)
    IN  [h |-> IF h.freerootptr = NULL \/ h.freerootptr = block
               THEN a3(a2(a1(h)))
               ELSE b4(b3(b2(b1(h)))),
         block |-> block]

(* Case 2: previous allocated, next free.  next_header and next_block are
   the same address. *)
coalesce_case2(h, block, next_block) ==
    LET s1(g) == IF GET_PREV(g, next_block) # NULL
                 THEN SET_NEXT(g, GET_PREV(g, next_block), GET_NEXT(g, next_block))
                 ELSE g
        s2(g) == IF GET_NEXT(g, next_block) # NULL
                 THEN SET_PREV(g, GET_NEXT(g, next_block), GET_PREV(g, next_block))
                 ELSE g
        a1(g) == SET_NEXT(g, block, GET_NEXT(g, next_block))
        a2(g) == SET_PREV(g, GET_NEXT(g, next_block), block)
        a3(g) == SetRoot(g, block)
        a4(g) == SET_PREV(g, block, NULL)
        a5(g) == SET_NEXT(g, next_block, NULL)
        b1(g) == SetRoot(g, block)
        b2(g) == SET_PREV(g, block, NULL)
        b3(g) == SET_NEXT(g, block, NULL)
        c1(g) == SET_NEXT(g, block, g.freerootptr)
        c2(g) == SET_PREV(g, g.freerootptr, block)
        c3(g) == SetRoot(g, block)
        c4(g) == SET_PREV(g, block, NULL)
        s3(g) == IF GET_NEXT(g, next_block) # NULL /\ next_block = g.freerootptr
                 THEN a5(a4(a3(a2(a1(g)))))
                 ELSE IF GET_NEXT(g, next_block) = NULL /\ next_block = g.freerootptr
                 THEN b3(b2(b1(g)))
                 ELSE c4(c3(c2(c1(g))))
        s4(g) == SET_PREV(SET_NEXT(g, next_block, NULL), next_block, NULL)
        s5(g) == SetSize(g, block, GetSize(g, block) + GetSize(g, next_block))
        s6(g) == LET next_footer == get_footer(g, block)
                 IN  SetSize(g, next_footer, GetSize(g, block))
    IN  [h |-> s6(s5(s4(s3(s2(s1(h)))))), block |-> block]

(* Case 3: previous free, next allocated *)
coalesce_case3(h, block, prev_block) ==
    LET s1(g) == IF GET_PREV(g, prev_block) # NULL
                 THEN SET_NEXT(g, GET_PREV(g, prev_block), GET_NEXT(g, prev_block))
                 ELSE g
        s2(g) == IF GET_NEXT(g, prev_block) # NULL
                 THEN SET_PREV(g, GET_NEXT(g, prev_block), GET_PREV(g, prev_block))
                 ELSE g
        c1(g) == SET_NEXT(g, prev_block, g.freerootptr)
        c2(g) == SET_PREV(g, g.freerootptr, prev_block)
        c3(g) == SetRoot(g, prev_block)
        s3(g) == IF GET_NEXT(g, prev_block) # NULL /\ prev_block = g.freerootptr
                 THEN SET_PREV(g, GET_NEXT(g, g.freerootptr), prev_block)
                 ELSE IF GET_NEXT(g, prev_block) = NULL /\ prev_block = g.freerootptr
                 THEN g
                 ELSE c3(c2(c1(g)))
        s4(g) == SET_PREV(g, prev_block, NULL)
        s5(g) == SET_NEXT(SET_PREV(g, block, NULL), block, NULL)
        s6(g) == SetSize(g, prev_block, GetSize(g, prev_block) + GetSize(g, block))
        s7(g) == LET footer == get_footer(g, prev_block)
                 IN  SetSize(g, footer, GetSize(g, prev_block))
    IN  [h |-> s7(s6(s5(s4(s3(s2(s1(h))))))), block |-> prev_block]

(* Case 4, prev_block->next == next_block *)
coalesce_case4a(h, prev_block, next_block) ==
    LET s1(g) == IF GET_PREV(g, prev_block) # NULL
                 THEN SET_NEXT(g, GET_PREV(g, prev_block), GET_NEXT(g, next_block))
                 ELSE g
        s2(g) == IF GET_NEXT(g, next_block) # NULL
                 THEN SET_PREV(g, GET_NEXT(g, next_block), GET_PREV(g, prev_block))
                 ELSE g
        s3(g) == IF prev_block = g.freerootptr /\ GET_NEXT(g, next_block) # NULL
                 THEN SetRoot(g, GET_NEXT(g, next_block))
                 ELSE g
        s4(g) == SET_PREV(SET_NEXT(g, prev_block, NULL), next_block, NULL)
        c1(g) == SET_NEXT(g, prev_block, g.freerootptr)
        c2(g) == SET_PREV(g, g.freerootptr, prev_block)
        c3(g) == SetRoot(g, prev_block)
        c4(g) == SET_PREV(g, g.freerootptr, NULL)
        s5(g) == IF GET_PREV(g, prev_block) = NULL /\ GET_NEXT(g, next_block) = NULL
                 THEN g
                 ELSE c4(c3(c2(c1(g))))
        s6(g) == SET_NEXT(g, next_block, NULL)
    IN  s6(s5(s4(s3(s2(s1(h))))))

(* Case 4, next_block->next == prev_block *)
coalesce_case4b(h, prev_block, next_block) ==
    LET s1(g) == IF GET_PREV(g, next_block) # NULL
                 THEN SET_NEXT(g, GET_PREV(g, next_block), GET_NEXT(g, prev_block))
                 ELSE g
        s2(g) == IF GET_NEXT(g, prev_block) # NULL
                 THEN SET_PREV(g, GET_NEXT(g, prev_block), GET_PREV(g, next_block))
                 ELSE g
        s3(g) == IF next_block = g.freerootptr /\ GET_NEXT(g, prev_block) # NULL
                 THEN SetRoot(g, GET_NEXT(g, prev_block))
                 ELSE g
        s4(g) == SET_PREV(SET_NEXT(g, next_block, NULL), prev_block, NULL)
        b1(g) == SetRoot(g, prev_block)
        b2(g) == SET_PREV(g, GET_NEXT(g, prev_block), prev_block)
        c1(g) == SET_NEXT(g, prev_block, g.freerootptr)
        c2(g) == SET_PREV(g, g.freerootptr, prev_block)
        c3(g) == SetRoot(g, prev_block)
        c4(g) == SET_PREV(g, g.freerootptr, NULL)
        s5(g) == IF GET_PREV(g, next_block) = NULL /\ GET_NEXT(g, prev_block) = NULL
                 THEN SetRoot(g, prev_block)
                 ELSE IF GET_PREV(g, next_block) = NULL
                         /\ GET_NEXT(g, prev_block) # NULL
                 THEN b2(b1(g))
                 ELSE c4(c3(c2(c1(g))))
        s6(g) == SET_PREV(g, next_block, NULL)
    IN  s6(s5(s4(s3(s2(s1(h))))))

(* coalesce_case4c whose branch for next_block at the root leaves the prev
   link of next_block's successor as it is *)
coalesce_case4c_unlinked(h, prev_block, next_block) ==
    LET s1(g) == IF GET_PREV(g, next_block) # NULL
                 THEN SET_NEXT(g, GET_PREV(g, next_block), GET_NEXT(g, next_block))
                 ELSE g
        s2(g) == IF GET_NEXT(g, next_block) # NULL
                 THEN SET_PREV(g, GET_NEXT(g, next_block), GET_PREV(g, next_block))
                 ELSE g
        s3(g) == IF GET_PREV(g, prev_block) # NULL
                 THEN SET_NEXT(g, GET_PREV(g, prev_block), GET_NEXT(g, prev_block))
                 ELSE g
        s4(g) == IF GET_NEXT(g, prev_block) # NULL
                 THEN SET_PREV(g, GET_NEXT(g, prev_block), GET_PREV(g, prev_block))
                 ELSE g
        a1(g) == SET_NEXT(g, prev_block, g.freerootptr)
        a2(g) == SET_PREV(g, g.freerootptr, prev_block)
        a3(g) == SetRoot(g, prev_block)
        a4(g) == SET_PREV(g, g.freerootptr, NULL)
        b1(g) == SET_PREV(g, GET_NEXT(g, g.freerootptr), prev_block)
        b2(g) == SET_PREV(g, GET_NEXT(g, g.freerootptr), prev_block)
        b3(g) == SET_PREV(g, g.freerootptr, NULL)
        c1(g) == SET_NEXT(g, prev_block, GET_NEXT(g, next_block))
        c2(g) == g
        c3(g) == SetRoot(g, prev_block)
        c4(g) == SET_PREV(g, g.freerootptr, NULL)
        s5(g) == IF prev_block # g.freerootptr /\ next_block # g.freerootptr
                 THEN a4(a3(a2(a1(g))))
                 ELSE IF prev_block = g.freerootptr /\ next_block # g.freerootptr
                 THEN b3(b2(b1(g)))
                 ELSE IF prev_block # g.freerootptr /\ next_block = g.freerootptr
                 THEN c4(c3(c2(c1(g))))
                 ELSE g
    IN  s5(s4(s3(s2(s1(h)))))

(* Case 4, the two neighbours are not adjacent in the free list *)
coalesce_case4c(h, prev_block, next_block) ==
    LET s1(g) == IF GET_PREV(g, next_block) # NULL
                 THEN SET_NEXT(g, GET_PREV(g, next_block), GET_NEXT(g, next_block))
                 ELSE g
        s2(g) == IF GET_NEXT(g, next_block) # NULL
                 THEN SET_PREV(g, GET_NEXT(g, next_block), GET_PREV(g, next_block))
                 ELSE g
        s3(g) == IF GET_PREV(g, prev_block) # NULL
                 THEN SET_NEXT(g, GET_PREV(g, prev_block), GET_NEXT(g, prev_block))
                 ELSE g
        s4(g) == IF GET_NEXT(g, prev_block) # NULL
                 THEN SET_PREV(g, GET_NEXT(g, prev_block), GET_PREV(g, prev_block))
                 ELSE g
        a1(g) == SET_NEXT(g, prev_block, g.freerootptr)
        a2(g) == SET_PREV(g, g.freerootptr, prev_block)
        a3(g) == SetRoot(g, prev_block)
        a4(g) == SET_PREV(g, g.freerootptr, NULL)
        b1(g) == SET_PREV(g, GET_NEXT(g, g.freerootptr), prev_block)
        b2(g) == SET_PREV(g, GET_NEXT(g, g.freerootptr), prev_block)
        b3(g) == SET_PREV(g, g.freerootptr, NULL)
        c1(g) == SET_NEXT(g, prev_block, GET_NEXT(g, next_block))
        c2(g) == SET_PREV(g, GET_NEXT(g, next_block), prev_block)
        c3(g) == SetRoot(g, prev_block)
        c4(g) == SET_PREV(g, g.freerootptr, NULL)
        s5(g) == IF prev_block # g.freerootptr /\ next_block # g.freerootptr
                 THEN a4(a3(a2(a1(g))))
                 ELSE IF prev_block = g.freerootptr /\ next_block # g.freerootptr
                 THEN b3(b2(b1(g)))
                 ELSE IF prev_block # g.freerootptr /\ next_block = g.freerootptr
                 THEN c4(c3(c2(c1(g))))
                 ELSE g
    IN  s5(s4(s3(s2(s1(h)))))

(* Case 4: both neighbours free.  next_header and next_block are the same
   address. *)
coalesce_case4(h, block, prev_block, next_block) ==
    LET s1(g) == IF GET_NEXT(g, prev_block) = next_block
                 THEN coalesce_case4a(g, prev_block, next_block)
                 ELSE IF GET_NEXT(g, next_block) = prev_block
                 THEN coalesce_case4b(g, prev_block, next_block)
                 ELSE coalesce_case4c(g, prev_block, next_block)
        s2(g) == SetSize(g, prev_block,
                         GetSize(g, prev_block) + GetSize(g, block)
                             + GetSize(g, next_block))
        s3(g) == LET next_footer == get_footer(g, prev_block)
                 IN  SetSize(g, next_footer, GetSize(g, prev_block))
    IN  [h |-> s3(s2(s1(h))), block |-> prev_block]

(* coalesce that never merges: every block is handled as in case 1 *)
coalesce_never(h, block) == coalesce_case1(h, block)

coalesce(h, block) ==
    LET prev_footer == block - HeaderSize
        next_header == block + GetSize(h, block)
        prev_alloc == GetAlloc(h, prev_footer) # 0
        next_alloc == GetAlloc(h, next_header) # 0
        next_block == block + GetSize(h, block)
        prev_block == prev_footer - GetSize(h, prev_footer) + HeaderSize
    IN  IF prev_alloc /\ next_alloc THEN coalesce_case1(h, block)
        ELSE IF prev_alloc /\ ~next_alloc
        THEN coalesce_case2(h, block, next_block)
        ELSE IF ~prev_alloc /\ next_alloc
        THEN coalesce_case3(h, block, prev_block)
        ELSE coalesce_case4(h, block, prev_block, next_block)

-----------------------------------------------------------------------------
(* extend_heap: words is a size_t, size a uint32_t.  sbrk tells whether    *)
(* the growth primitive was called and what it answered.                   *)

(* extend_heap_grown that gives the new epilogue the size of a header *)
extend_heap_grown_sized(h, size) ==
    LET block == h.brk - HeaderSize
        s1(g) == mem_sbrk(g, size)
        s2(g) == SetSize(SetAlloc(g, block, FREE), block, Val(size))
        s3(g) == LET block_footer == get_footer(g, block)
                     new_epilogue == block_footer + HeaderSize
                     t1(k) == SetSize(SetAlloc(k, block_footer, FREE), block_footer,
                                      GetSize(k, block))
                     t2(k) == SetSize(SetAlloc(k, new_epilogue, ALLOC),
                                      new_epilogue, HeaderSize)
                 IN  t2(t1(g))
        s4(g) == IF g.freerootptr = NULL
                 THEN SET_PREV(SET_NEXT(SetRoot(g, block), block, NULL), block, NULL)
                 ELSE g
        done(c) == [h |-> c.h, block |-> c.block, sbrk |-> "ok"]
    IN  done(coalesce(s4(s3(s2(s1(h)))), block))

(* the statements of extend_heap once mem_sbrk has granted size bytes at
   the old top of the heap; block is the old epilogue *)
extend_heap_grown(h, size) ==
    LET block == h.brk - HeaderSize
        s1(g) == mem_sbrk(g, size)
        s2(g) == SetSize(SetAlloc(g, block, FREE), block, Val(size))
        s3(g) == LET block_footer == get_footer(g, block)
                     new_epilogue == block_footer + HeaderSize
                     t1(k) == SetSize(SetAlloc(k, block_footer, FREE), block_footer,
                                      GetSize(k, block))
                     t2(k) == SetSize(SetAlloc(k, new_epilogue, ALLOC),
                                      new_epilogue, 0)
                 IN  t2(t1(g))
        s4(g) == IF g.freerootptr = NULL
                 THEN SET_PREV(SET_NEXT(SetRoot(g, block), block, NULL), block, NULL)
                 ELSE g
        done(c) == [h |-> c.h, block |-> c.block, sbrk |-> "ok"]
    IN  done(coalesce(s4(s3(s2(s1(h)))), block))

(* extend_heap that marks the old epilogue free before it asks for memory *)
extend_heap_eager(h, words, avail) ==
    LET size == TruncU32(Shl3(words))
    IN  IF IsZero(size)
        THEN [h |-> h, block |-> NULL, sbrk |-> "none"]
        ELSE IF ~mem_sbrk_ok(h, size, avail)
        THEN [h |-> SetAlloc(h, h.brk - HeaderSize, FREE), block |-> NULL,
              sbrk |-> "failed"]
        ELSE extend_heap_grown(h, size)

extend_heap(h, words, avail) ==
    LET size == TruncU32(Shl3(words))
    IN  IF IsZero(size)
        THEN [h |-> h, block |-> NULL, sbrk |-> "none"]
        ELSE IF ~mem_sbrk_ok(h, size, avail)
        THEN [h |-> h, block |-> NULL, sbrk |-> "failed"]
        ELSE extend_heap_grown(h, size)

-----------------------------------------------------------------------------
(* mm_malloc: size is a size_t.  Answers the heap, the returned pointer    *)
(* and what the growth primitive did.                                      *)

(* AdjustedSize without the rounding to a multiple of 8 *)
AdjustedSize_unrounded(size) ==
    LET asize == TruncU32(AddK(size, OVERHEAD))
    IN  IF LtInt(asize, MIN_BLOCK_SIZE) THEN U32(MIN_BLOCK_SIZE) ELSE asize

(* asize of mm_malloc *)
AdjustedSize(size) ==
    LET size1 == AddK(size, OVERHEAD)
        asize == TruncU32(Shl3(Shr3(AddK(size1, 7))))
    IN  IF LtInt(asize, MIN_BLOCK_SIZE) THEN U32(MIN_BLOCK_SIZE) ELSE asize

mm_malloc(h, size, avail) ==
    IF IsZero(size)
    THEN [h |-> h, ret |-> NULL, sbrk |-> "none"]
    ELSE
    LET asize == AdjustedSize(size)
        extendsize == IF GtInt(asize, CHUNKSIZE) THEN asize ELSE U32(CHUNKSIZE)
        extendwords == Shr3(extendsize)
        extended(e) ==
            IF e.block # NULL
            THEN [h |-> place(e.h, e.block, Val(asize)),
                  ret |-> e.block + HeaderSize, sbrk |-> e.sbrk]
            ELSE [h |-> e.h, ret |-> NULL, sbrk |-> e.sbrk]
        searched(block) ==
            IF block # NULL
            THEN [h |-> place(h, block, Val(asize)), ret |-> block + HeaderSize,
                  sbrk |-> "none"]
            ELSE extended(extend_heap(h, ExtendU64(extendwords), avail))
    IN  searched(find_fit(h, ExtendU64(asize)))

-----------------------------------------------------------------------------
(* mm_free *)

(* mm_free that leaves the footer as it was *)
mm_free_header_only(h, payload) ==
    LET block == payload - HeaderSize
    IN  coalesce(SetAlloc(h, block, FREE), block).h

(* mm_free that puts the block on the list without looking at its
   neighbours *)
mm_free_unmerged(h, payload) ==
    LET block == payload - HeaderSize
        s1(g) == SetAlloc(g, block, FREE)
        s2(g) == SetAlloc(g, get_footer(g, block), FREE)
    IN  coalesce_case1(s2(s1(h)), block).h

mm_free(h, payload) ==
    LET block == payload - HeaderSize
        s1(g) == SetAlloc(g, block, FREE)
        s2(g) == LET footer == get_footer(g, block)
                 IN  SetAlloc(g, footer, FREE)
    IN  coalesce(s2(s1(h)), block).h

-----------------------------------------------------------------------------
(* memcpy(dst, src, n) on the word memory: a word wholly inside the        *)
(* destination takes the value of the source word at the same offset (no   *)
(* defined value when the source has none); a word only partly inside the  *)
(* destination keeps no defined value.  A copy that leaves the granted     *)
(* region stops TLC with an error.                                         *)

memcpy(h, dst, src, n) ==
    LET m == h.mem
        Whole(a) == dst <= a /\ a + WSIZE <= dst + n
        Partly(a) == a + WSIZE > dst /\ a < dst + n /\ ~Whole(a)
        Src(a) == src + (a - dst)
        D == {a \in DOMAIN m : ~Whole(a) /\ ~Partly(a)}
             \cup {dst + (s - src) : s \in {t \in DOMAIN m : Whole(dst + (t - src))}}
    IN  IF n > 0 /\ (src < mem_start_brk \/ src + n > h.brk
                     \/ dst < mem_start_brk \/ dst + n > h.brk)
        THEN Segv
        ELSE [h EXCEPT !.mem = [a \in D |-> IF Whole(a) THEN m[Src(a)] ELSE m[a]]]

-----------------------------------------------------------------------------
(* mm_realloc: exited tells that the process was ended by exit(1).         *)

mm_realloc(h, ptr, size, avail) ==
    LET block == ptr - HeaderSize
        copySize(g) == IF LtInt(size, GetSize(g, block)) THEN Val(size)
                       ELSE GetSize(g, block)
        allocated(r) ==
            IF r.ret = NULL
            THEN [h |-> r.h, ret |-> NULL, sbrk |-> r.sbrk, exited |-> TRUE,
                  copySize |-> 0]
            ELSE [h |-> mm_free(memcpy(r.h, r.ret, ptr, copySize(r.h)), ptr),
                  ret |-> r.ret, sbrk |-> r.sbrk, exited |-> FALSE,
                  copySize |-> copySize(r.h)]
    IN  allocated(mm_malloc(h, size, avail))

-----------------------------------------------------------------------------
(* The caller.  live holds the payload pointers the caller owns; calls     *)
(* counts its calls after mm_init; op is the call that has just returned,  *)
(* with its arguments and its result, until the caller takes the result    *)
(* (Return), and Idle between calls.                                       *)

(* Requests whose adjusted size fits the 31-bit block_size field; the last
   one is the largest of them, 2^31 - 24. *)
Requests ==
    { SizeT(0), SizeT(16), SizeT(17), SizeT(CHUNKSIZE - 32),
      <<Limb - 24, 2^15 - 1, 0, 0>> }

(* Requests of the whole size_t domain: also 2^31 + 8, 2^32 and 2^64 - 1 *)
WideRequests ==
    Requests \cup { <<8, 2^15, 0, 0>>, <<0, 0, 1, 0>>,
                    <<Limb - 1, Limb - 1, Limb - 1, Limb - 1>> }

Heap == [mem |-> mem, freerootptr |-> freerootptr, prologue |-> prologue,
         brk |-> mem_brk]

SetHeap(h) ==
    /\ mem' = h.mem
    /\ freerootptr' = h.freerootptr
    /\ prologue' = h.prologue
    /\ mem_brk' = h.brk

Call(name, size, ptr, ret, sbrk, exited) ==
    [name |-> name, size |-> size, ptr |-> ptr, ret |-> ret, sbrk |-> sbrk,
     exited |-> exited]

Idle == Call("idle", SizeT(0), NULL, NULL, "none", FALSE)

Inited == prologue # NULL /\ prologue # Undef

Running == Inited /\ op = Idle /\ calls < MaxCalls

Init ==
    /\ mem = << >>
    /\ prologue = NULL
    /\ freerootptr = NULL
    /\ mem_brk = mem_start_brk
    /\ live = {}
    /\ calls = 0
    /\ op = Idle

MmInit ==
    /\ prologue = NULL
    /\ op = Idle
    /\ \E avail \in BOOLEAN :
        LET r == mm_init(Heap, avail)
        IN  /\ SetHeap(r.h)
            /\ op' = Call("init", SizeT(0), NULL, r.ret,
                          IF r.ret = 0 THEN "ok" ELSE "failed", FALSE)
    /\ UNCHANGED <<live, calls>>

(* The blocks of the heap, walked as mm_checkheap walks them: from the
   block after the prologue, each block_size further, up to a header of
   size 0.  The walk gives up where a word holds no header, and after more
   steps than the heap has words. *)
RECURSIVE WalkFrom(_, _, _)
WalkFrom(h, b, fuel) ==
    IF fuel = 0 \/ b \notin DOMAIN h.mem THEN << >>
    ELSE IF h.mem[b].kind # "hdr" THEN << >>
    ELSE IF ~(h.mem[b].block_size > 0) THEN << >>
    ELSE <<b>> \o WalkFrom(h, b + h.mem[b].block_size, fuel - 1)

Blocks(h) ==
    WalkFrom(h, h.prologue + h.mem[h.prologue].block_size,
             Cardinality(DOMAIN h.mem))

(* Words the allocator has no further use for.  The payload region of an
   allocated block is the caller's to write from the return of mm_malloc or
   mm_realloc on, and the words of a free block between its two links and
   its footer are left over from blocks that were merged into it.  The model
   forgets them: a forgotten word holds no value, and a read of it stops TLC
   with an error, so forgetting never changes what a run without error
   does. *)
Forget(h) ==
    LET blocks == Blocks(h)
        Dead(a) ==
            \E i \in 1..Len(blocks) :
                LET b == blocks[i]
                    w == h.mem[b]
                IN  /\ a + WSIZE > b + HeaderSize
                    /\ a < b + w.block_size - HeaderSize
                    /\ (w.allocated = FREE => a >= b + HeaderSize + 2 * WSIZE)
    IN  [h EXCEPT !.mem = [a \in {x \in DOMAIN h.mem : ~Dead(x)} |-> h.mem[a]]]

(* The environment's answers a call can meet: the growth primitive is
   asked only when no free block fits. *)
Answers(size) ==
    IF ~IsZero(size) /\ find_fit(Heap, ExtendU64(AdjustedSize(size))) = NULL
    THEN BOOLEAN ELSE {TRUE}

(* the caller's state after mm_malloc has answered r *)
Malloced(size, r) ==
    /\ SetHeap(Forget(r.h))
    /\ live' = IF r.ret = NULL THEN live ELSE live \cup {r.ret}
    /\ op' = Call("malloc", size, NULL, r.ret, r.sbrk, FALSE)
    /\ calls' = calls + 1

MallocOf(size, avail) == Malloced(size, mm_malloc(Heap, size, avail))

Malloc ==
    /\ Running
    /\ Cardinality(live) < MaxLive
    /\ \E size \in Requests : \E avail \in Answers(size) : MallocOf(size, avail)

MallocWide ==
    /\ Running
    /\ Cardinality(live) < MaxLive
    /\ \E size \in WideRequests : \E avail \in Answers(size) :
        MallocOf(size, avail)

Free ==
    /\ Running
    /\ \E p \in live :
        /\ SetHeap(Forget(mm_free(Heap, p)))
        /\ live' = live \ {p}
        /\ op' = Call("free", SizeT(0), p, NULL, "none", FALSE)
        /\ calls' = calls + 1

(* the caller's state after mm_realloc has answered r *)
Realloced(p, size, r) ==
    /\ SetHeap(Forget(r.h))
    /\ live' = IF r.exited THEN live ELSE (live \ {p}) \cup {r.ret}
    /\ op' = Call("realloc", size, p, r.ret, r.sbrk, r.exited)
    /\ calls' = calls + 1

Realloc ==
    /\ Running
    /\ \E p \in live, size \in Requests : \E avail \in Answers(size) :
        Realloced(p, size, mm_realloc(Heap, p, size, avail))

(* The caller takes the result of the call.  After exit(1) there is no
   caller. *)
Return ==
    /\ op # Idle
    /\ ~op.exited
    /\ op' = Idle
    /\ UNCHANGED <<mem, prologue, freerootptr, mem_brk, live, calls>>

Next == MmInit \/ Malloc \/ Free \/ Realloc \/ Return

Spec == Init /\ [][Next]_vars

(* The allocator called with requests of the whole size_t domain *)
NextWide == MmInit \/ MallocWide \/ Free \/ Return

SpecWide == Init /\ [][NextWide]_vars

-----------------------------------------------------------------------------
(* What a state of the heap says, read without stopping on a word that     *)
(* holds no value.                                                         *)

(* The free list, walked as find_fit walks it: from the root through the
   next links.  The walk gives up at a block whose next link holds no
   pointer, and after more steps than the heap has words. *)
RECURSIVE ListFrom(_, _, _)
ListFrom(h, b, fuel) ==
    IF b = NULL \/ fuel = 0 THEN << >>
    ELSE IF b + 8 \notin DOMAIN h.mem THEN <<b>>
    ELSE IF h.mem[b + 8].kind # "ptr" THEN <<b>>
    ELSE <<b>> \o ListFrom(h, h.mem[b + 8].ptr, fuel - 1)

FreeList(h) == ListFrom(h, h.freerootptr, Cardinality(DOMAIN h.mem) + 1)

Range(s) == {s[i] : i \in 1..Len(s)}

(* block_size of the block whose header is at b *)
SizeOf(b) == Word(mem, b).block_size

(* The byte ranges [a1, a2) and [b1, b2) share a byte. *)
Overlap(a1, a2, b1, b2) == a1 < a2 /\ b1 < b2 /\ a1 < b2 /\ b1 < a2

(* The payload region of the live allocation p *)
PayloadEnd(p) == p + SizeOf(p - HeaderSize) - OVERHEAD

-----------------------------------------------------------------------------
(* C1: the payload regions [p, p + block_size - 16) of the live            *)
(* allocations are pairwise disjoint, each holds at least one byte, and    *)
(* none of them overlaps a block of the free list, the prologue or the     *)
(* epilogue.                                                               *)
NoOverlap ==
    Inited =>
        \A p \in live :
            /\ p < PayloadEnd(p)
            /\ \A q \in live \ {p} :
                   ~Overlap(p, PayloadEnd(p), q, PayloadEnd(q))
            /\ \A f \in Range(FreeList(Heap)) :
                   ~Overlap(p, PayloadEnd(p), f, f + SizeOf(f))
            /\ ~Overlap(p, PayloadEnd(p), prologue, prologue + HeaderSize)
            /\ ~Overlap(p, PayloadEnd(p), mem_brk - HeaderSize, mem_brk)

(* Three live allocations beside a free block, after a reallocate *)
NoOverlapWitness ==
    /\ Inited
    /\ Cardinality(live) >= 3
    /\ freerootptr # NULL
    /\ op.name = "realloc"
    /\ ~op.exited


-----------------------------------------------------------------------------
(* C2: whenever allocate(n), n > 0, returns a non-null pointer, the block  *)
(* it belongs to has block_size - 16 >= n payload bytes, for every n of    *)
(* the size_t domain.                                                      *)
Capacity ==
    (op.name = "malloc" /\ op.ret # NULL) =>
        LeqInt(op.size, SizeOf(op.ret - HeaderSize) - OVERHEAD)

-----------------------------------------------------------------------------
(* C3: every non-null pointer returned by allocate or reallocate is a      *)
(* multiple of 8, and every block header of the heap walk sits at an       *)
(* offset that is a multiple of 8 from the start of the heap.              *)
Aligned ==
    Inited =>
        /\ mem_start_brk % 8 = 0
        /\ \A b \in Range(Blocks(Heap)) : (b - mem_start_brk) % 8 = 0
        /\ \A p \in live : p % 8 = 0
        /\ (op.name \in {"malloc", "realloc"} /\ op.ret # NULL) => op.ret % 8 = 0

(* A request that is not a multiple of 8 was placed by a reallocate into a
   heap of at least three blocks *)
AlignedWitness ==
    /\ Inited
    /\ op.name = "realloc"
    /\ op.size = SizeT(17)
    /\ op.ret # NULL
    /\ Len(Blocks(Heap)) >= 3


-----------------------------------------------------------------------------
(* The blocks of the heap walk whose allocated flag is 0 *)
FreeBlocks == {b \in Range(Blocks(Heap)) : Word(mem, b).allocated = FREE}

(* C4: in every state in which no allocation is live, the heap holds       *)
(* exactly one block, it is free, its size is the number of bytes granted  *)
(* by the growth primitive minus 16 (65520 right after initialize), and    *)
(* the free list consists of exactly that block.                           *)
FullyCoalesced ==
    (Inited /\ live = {}) =>
        LET b == prologue + HeaderSize
        IN  /\ Blocks(Heap) = <<b>>
            /\ Word(mem, b) = Hdr(FREE, (mem_brk - mem_start_brk) - OVERHEAD)
            /\ Word(mem, mem_brk - HeaderSize) = Hdr(ALLOC, 0)
            /\ freerootptr = b
            /\ FreeList(Heap) = <<b>>
            /\ mem[b + 8] = Ptr(NULL)
            /\ (op.name = "init" => SizeOf(b) = 65520)

(* The last live block was freed after the heap had grown *)
FullyCoalescedWitness ==
    /\ Inited
    /\ live = {}
    /\ op.name = "free"
    /\ calls >= 4
    /\ mem_brk > mem_start_brk + CHUNKSIZE

-----------------------------------------------------------------------------
(* C5: every block reached by walking from the prologue through the header *)
(* sizes has a footer equal to its header in size and in allocated flag,   *)
(* and the walk ends at the epilogue, the allocated header of size 0 in    *)
(* the last word of the heap.                                              *)
TagsAgree ==
    Inited =>
        LET blocks == Blocks(Heap)
            last == blocks[Len(blocks)]
        IN  /\ Len(blocks) > 0
            /\ \A b \in Range(blocks) :
                   /\ Word(mem, b).allocated \in {FREE, ALLOC}
                   /\ Word(mem, b + SizeOf(b) - HeaderSize) = Word(mem, b)
            /\ last + SizeOf(last) = mem_brk - HeaderSize
            /\ Word(mem, mem_brk - HeaderSize) = Hdr(ALLOC, 0)

(* A deallocate left a heap of at least four blocks, free and allocated *)
TagsAgreeWitness ==
    /\ Inited
    /\ op.name = "free"
    /\ Len(Blocks(Heap)) >= 4
    /\ Cardinality(FreeBlocks) >= 2
    /\ live # {}

-----------------------------------------------------------------------------
(* C6: a block of the heap walk is reached from the free-list root through *)
(* the next links iff its allocated flag is 0; each free block is reached  *)
(* exactly once, the walk ends at a null link, and the root is null        *)
(* exactly when the heap has no free block.                                *)
FreeListMembership ==
    Inited =>
        LET list == FreeList(Heap)
        IN  /\ Range(list) = FreeBlocks
            /\ Len(list) = Cardinality(FreeBlocks)
            /\ \A f \in Range(list) : f + 8 \in DOMAIN mem /\ mem[f + 8].kind = "ptr"
            /\ (freerootptr = NULL) <=> (FreeBlocks = {})


(* A deallocate left two free blocks on the list beside two live
   allocations *)
FreeListMembershipWitness ==
    /\ Inited
    /\ Cardinality(FreeBlocks) >= 2
    /\ Cardinality(live) >= 2
    /\ op.name = "free"

-----------------------------------------------------------------------------
(* C7: no two physically adjacent blocks of the heap walk both have        *)
(* allocated flag 0.                                                       *)
NoAdjacentFree ==
    Inited =>
        LET blocks == Blocks(Heap)
        IN  \A i \in 1..(Len(blocks) - 1) :
                ~(/\ Word(mem, blocks[i]).allocated = FREE
                  /\ Word(mem, blocks[i + 1]).allocated = FREE)

(* An allocate grew the heap while its last block was free: the returned
   block starts in the old chunk and the new chunk was merged into it *)
NoAdjacentFreeWitness ==
    /\ Inited
    /\ op.name = "malloc"
    /\ op.sbrk = "ok"
    /\ op.ret # NULL
    /\ op.ret < mem_brk - CHUNKSIZE - HeaderSize
    /\ live # {op.ret}

-----------------------------------------------------------------------------
(* Some free block of the heap walk holds asize bytes *)
FitExists(asize) ==
    \E b \in FreeBlocks : LeqInt(asize, SizeOf(b))

(* C8: allocate(size) returns null iff size == 0 or the growth primitive   *)
(* fails during the call; it does not return null, and does not ask for    *)
(* growth, while a free block of at least the adjusted size exists, and it *)
(* does not return null when the growth primitive succeeds.                *)
AllocNullIff ==
    [][(op.name = "idle" /\ op'.name = "malloc") =>
          /\ (op'.ret = NULL) <=> (IsZero(op'.size) \/ op'.sbrk = "failed")
          /\ (~IsZero(op'.size) /\ FitExists(AdjustedSize(op'.size))) =>
                 (op'.ret # NULL /\ op'.sbrk = "none")
          /\ op'.sbrk = "ok" => op'.ret # NULL]_vars

(* allocate returned null for a size that is not 0 while the free list
   held a block, too small for it *)
AllocNullIffWitness ==
    /\ Inited
    /\ op.name = "malloc"
    /\ ~IsZero(op.size)
    /\ op.ret = NULL
    /\ op.sbrk = "failed"
    /\ freerootptr # NULL

-----------------------------------------------------------------------------
(* C9: when allocate finds no fitting free block and the growth primitive  *)
(* fails, it returns null, and every word of the heap (headers, footers,   *)
(* links), the free-list root and the heap top are as before the call.     *)
FailedAllocUnchanged ==
    [][(op.name = "idle" /\ op'.name = "malloc" /\ op'.sbrk = "failed") =>
          /\ op'.ret = NULL
          /\ mem' = mem
          /\ freerootptr' = freerootptr
          /\ prologue' = prologue
          /\ mem_brk' = mem_brk
          /\ live' = live]_vars

(* allocate failed on a heap that holds two live allocations *)
FailedAllocUnchangedWitness ==
    /\ Inited
    /\ op.name = "malloc"
    /\ op.sbrk = "failed"
    /\ op.ret = NULL
    /\ Cardinality(live) >= 2

-----------------------------------------------------------------------------
(* C10: reallocate(p, n), for every live p and every n >= 0, when the      *)
(* growth primitive does not fail, returns a pointer to an allocated block *)
(* of the heap that is not p's block, and after the call p's block is part *)
(* of a free block of the free list.                                       *)
ReallocFresh ==
    (Inited /\ op.name = "realloc" /\ op.sbrk # "failed") =>
        /\ ~op.exited
        /\ op.ret # NULL
        /\ op.ret # op.ptr
        /\ (op.ret - HeaderSize) \in Range(Blocks(Heap))
        /\ Word(mem, op.ret - HeaderSize).allocated = ALLOC
        /\ \E f \in Range(FreeList(Heap)) :
               /\ Word(mem, f).allocated = FREE
               /\ f <= op.ptr - HeaderSize
               /\ op.ptr - HeaderSize < f + SizeOf(f)

-----------------------------------------------------------------------------
Min(a, b) == IF a <= b THEN a ELSE b

(* C11: reallocate(p, n) copies exactly min(old block_size - 16, n) bytes, *)
(* so the copy ends before the old block's footer.  copySize is what       *)
(* mm_realloc computes on the heap of the call; growth, when it is asked   *)
(* for, has succeeded in a call that returns.                              *)
CopiesPayloadOnly ==
    [][(op.name = "idle" /\ op'.name = "realloc" /\ ~op'.exited) =>
          LET copySize == mm_realloc(Heap, op'.ptr, op'.size, TRUE).copySize
              old_block == op'.ptr - HeaderSize
          IN  /\ copySize = Min(SizeOf(old_block) - OVERHEAD, Val(op'.size))
              /\ op'.ptr + copySize <= old_block + SizeOf(old_block) - HeaderSize]_vars

-----------------------------------------------------------------------------
(* The largest value of the 31-bit block_size field *)
SizeFieldMax == 2147483647

(* The adjusted size of the request (size + 16 rounded up to 8, at least
   32), taken without truncation, exceeds SizeFieldMax: the largest multiple
   of 8 the field holds is SizeFieldMax - 7. *)
ExceedsSizeField(size) == GtInt(size, SizeFieldMax - 7 - OVERHEAD)

(* C12: an allocate request whose adjusted size exceeds the capacity of    *)
(* the 31-bit size field is rejected: allocate returns null.               *)
RejectsOversize ==
    (op.name = "malloc" /\ ExceedsSizeField(op.size)) => op.ret = NULL

-----------------------------------------------------------------------------
(* The heap never grew, and its walk is k >= 3 blocks of 32 bytes followed
   by a free remainder; block number i, neither the first nor the last of
   the k, is free and the other k - 1 are allocated: the heap after k
   allocate(16) on a fresh heap and a deallocate of the i-th, k + 1 calls
   in all. *)
FreedInRow(i) ==
    LET blocks == Blocks(Heap)
        k == Len(blocks) - 1
    IN  /\ mem_brk = mem_start_brk + CHUNKSIZE
        /\ calls = k + 1
        /\ k >= 3
        /\ i > 1 /\ i < k
        /\ \A j \in 1..k :
               /\ SizeOf(blocks[j]) = MIN_BLOCK_SIZE
               /\ Word(mem, blocks[j]).allocated = (IF j = i THEN FREE ELSE ALLOC)
        /\ Word(mem, blocks[k + 1]).allocated = FREE

(* C13: on a fresh heap, after k >= 3 allocations of 16 bytes and the      *)
(* deallocation of one that is neither the first nor the last, the next    *)
(* allocate(16) returns the address of the freed block.                    *)
ReusesFreedBlock ==
    [][(op.name = "idle" /\ op'.name = "malloc" /\ op'.size = SizeT(16)) =>
          \A i \in 1..Len(Blocks(Heap)) :
              FreedInRow(i) => op'.ret = Blocks(Heap)[i] + HeaderSize]_vars

(* Scenario C: A, B, C allocated, B freed, and allocate(16) has answered
   B's address *)
ReusesFreedBlockWitness ==
    /\ Inited
    /\ calls = 5
    /\ mem_brk = mem_start_brk + CHUNKSIZE
    /\ op.name = "malloc"
    /\ op.size = SizeT(16)
    /\ op.ret = prologue + HeaderSize + MIN_BLOCK_SIZE + HeaderSize
    /\ Cardinality(live) = 3
    /\ \A p \in live : SizeOf(p - HeaderSize) = MIN_BLOCK_SIZE

-----------------------------------------------------------------------------
(* After the step, the heap's walk has a free block of the given size at a:
   header and footer agree on it. *)
FreeBlockAfter(a, size) ==
    /\ a \in Range(Blocks(Heap'))
    /\ Word(mem', a) = Hdr(FREE, size)
    /\ Word(mem', a + size - HeaderSize) = Hdr(FREE, size)

MergesPairWitnessNext ==
    /\ Inited
    /\ op.name = "free"
    /\ op.ptr = prologue + HeaderSize + HeaderSize
    /\ Word(mem, prologue + HeaderSize) = Hdr(FREE, 2 * MIN_BLOCK_SIZE)
    /\ Word(mem, prologue + HeaderSize + 2 * MIN_BLOCK_SIZE) =
           Hdr(ALLOC, MIN_BLOCK_SIZE)
    /\ Cardinality(FreeBlocks) = 2

-----------------------------------------------------------------------------
(* the epilogue header: the last 8 bytes of the region granted so far *)
Epilogue == mem_brk - HeaderSize

(* C15: in every state after a successful initialize the block at the heap *)
(* start is the prologue, size 8 and allocated, the last 8 bytes of the    *)
(* granted region are the epilogue header, size 0 and allocated, neither   *)
(* is in the free list, and the blocks of the heap lie between the two:    *)
(* the first starts right after the prologue, the last ends at the         *)
(* epilogue, and none covers a sentinel.                                   *)
Sentinels ==
    Inited =>
        LET blocks == Blocks(Heap)
        IN  /\ prologue = mem_start_brk
            /\ Word(mem, prologue) = Hdr(ALLOC, HeaderSize)
            /\ Word(mem, Epilogue) = Hdr(ALLOC, 0)
            /\ prologue \notin Range(FreeList(Heap))
            /\ Epilogue \notin Range(FreeList(Heap))
            /\ Len(blocks) > 0
            /\ blocks[1] = prologue + HeaderSize
            /\ blocks[Len(blocks)] + SizeOf(blocks[Len(blocks)]) = Epilogue
            /\ \A i \in 1..Len(blocks) :
                   /\ blocks[i] > prologue
                   /\ blocks[i] + SizeOf(blocks[i]) <= Epilogue

(* the heap has grown, the old epilogue has become the header or an inner
   word of a block, and a block has just been freed *)
SentinelsWitness ==
    /\ Inited
    /\ mem_brk = mem_start_brk + 2 * CHUNKSIZE
    /\ op.name = "free"
    /\ Word(mem, mem_start_brk + CHUNKSIZE - HeaderSize) # Hdr(ALLOC, 0)
    /\ FreeBlocks # {}

-----------------------------------------------------------------------------
(* The heap and the free block that mm_malloc(size) hands to place: the
   block find_fit answers, or else the block extend_heap answers once the
   growth primitive has granted the memory. *)
PlacedOn(size) ==
    LET asize == AdjustedSize(size)
        extendsize == IF GtInt(asize, CHUNKSIZE) THEN asize ELSE U32(CHUNKSIZE)
        grown(e) == [h |-> e.h, block |-> e.block]
        searched(block) ==
            IF block # NULL THEN [h |-> Heap, block |-> block]
            ELSE grown(extend_heap(Heap, ExtendU64(Shr3(extendsize)), TRUE))
    IN  searched(find_fit(Heap, ExtendU64(asize)))

(* what place(block, a) on a free block of S bytes has to leave in the
   heap after the step; blocks is the number of blocks before place *)
SplitOrConsumed(block, a, S, blocks) ==
    IF S - a >= MIN_BLOCK_SIZE
    THEN /\ Word(mem', block) = Hdr(ALLOC, a)
         /\ Word(mem', block + a - HeaderSize) = Hdr(ALLOC, a)
         /\ Word(mem', block + a) = Hdr(FREE, S - a)
         /\ Word(mem', block + S - HeaderSize) = Hdr(FREE, S - a)
         /\ Len(Blocks(Heap')) = blocks + 1
    ELSE /\ Word(mem', block) = Hdr(ALLOC, S)
         /\ Word(mem', block + S - HeaderSize) = Hdr(ALLOC, S)
         /\ Len(Blocks(Heap')) = blocks

(* C16: place(block, a) on a free block of S >= a bytes, a a multiple of 8 *)
(* and at least 32: if S - a >= 32 the block becomes an allocated block of *)
(* a bytes followed at block + a by a new free block of S - a bytes,       *)
(* otherwise the block becomes allocated with its S bytes and no block is  *)
(* created; allocate(16) on a fresh heap leaves a 32-byte allocated block  *)
(* and a free block of 65488 bytes.                                        *)
SplitOrConsume ==
    [][(op.name = "idle" /\ op'.name = "malloc" /\ op'.ret # NULL) =>
          LET a == Val(AdjustedSize(op'.size))
              judged(c) ==
                  /\ c.block = op'.ret - HeaderSize
                  /\ GetSize(c.h, c.block) >= a
                  /\ a % 8 = 0
                  /\ a >= MIN_BLOCK_SIZE
                  /\ SplitOrConsumed(c.block, a, GetSize(c.h, c.block),
                                     Len(Blocks(c.h)))
          IN  /\ judged(PlacedOn(op'.size))
              /\ (calls = 0 /\ op'.size = SizeT(16)) =>
                    /\ Word(mem', prologue + HeaderSize) = Hdr(ALLOC, 32)
                    /\ Word(mem', prologue + HeaderSize + 32) = Hdr(FREE, 65488)
                    /\ Len(Blocks(Heap')) = 2]_vars

(* allocate(16) has been given a free block of 40 bytes whole: the 8 bytes
   left over are too few for a block *)
SplitOrConsumeWitness ==
    /\ Inited
    /\ op.name = "malloc"
    /\ op.size = SizeT(16)
    /\ op.ret # NULL
    /\ SizeOf(op.ret - HeaderSize) = 40

(* allocate(16) has split a free block of 64 bytes in two of 32 *)
SplitOrConsumeWitnessSplit ==
    /\ Inited
    /\ op.name = "malloc"
    /\ op.size = SizeT(16)
    /\ op.ret = prologue + HeaderSize + HeaderSize
    /\ Word(mem, prologue + HeaderSize) = Hdr(ALLOC, 32)
    /\ Word(mem, prologue + HeaderSize + 32) = Hdr(FREE, 32)

-----------------------------------------------------------------------------
(* the prev link of the free block b in the heap h *)
PrevLink(h, b) ==
    IF b + 16 \in DOMAIN h.mem /\ h.mem[b + 16].kind = "ptr"
    THEN h.mem[b + 16].ptr ELSE Undef

(* the next link of the free block b in the heap h *)
NextLink(h, b) ==
    IF b + 8 \in DOMAIN h.mem /\ h.mem[b + 8].kind = "ptr"
    THEN h.mem[b + 8].ptr ELSE Undef

(* s with its i-th element replaced by e *)
Replaced(s, i, e) == [j \in 1..Len(s) |-> IF j = i THEN e ELSE s[j]]

(* the position of block in the list, 0 if it is not there *)
IndexOf(list, block) ==
    IF \E i \in 1..Len(list) : list[i] = block
    THEN CHOOSE i \in 1..Len(list) : list[i] = block
    ELSE 0

(* C17: when place splits a free block, the remainder takes the list       *)
(* position of the original block: the free list read from the root is the *)
(* list before place with the remainder in the place of the original, the  *)
(* remainder's prev and next are the original's, those neighbours point    *)
(* back to the remainder, and the root is the remainder iff the original   *)
(* was the root.                                                           *)
SplitKeepsPosition ==
    [][(op.name = "idle" /\ op'.name = "malloc" /\ op'.ret # NULL) =>
          LET a == Val(AdjustedSize(op'.size))
              judged(c) ==
                  LET list == FreeList(c.h)
                      i == IndexOf(list, c.block)
                      new_block == c.block + a
                      prev == IF i = 1 THEN NULL ELSE list[i - 1]
                      next == IF i = Len(list) THEN NULL ELSE list[i + 1]
                  IN  GetSize(c.h, c.block) - a >= MIN_BLOCK_SIZE =>
                          /\ i > 0
                          /\ FreeList(Heap') = Replaced(list, i, new_block)
                          /\ PrevLink(Heap', new_block) = prev
                          /\ NextLink(Heap', new_block) = next
                          /\ PrevLink(c.h, c.block) = prev
                          /\ NextLink(c.h, c.block) = next
                          /\ (prev # NULL => NextLink(Heap', prev) = new_block)
                          /\ (next # NULL => PrevLink(Heap', next) = new_block)
                          /\ (freerootptr' = new_block) = (c.h.freerootptr = c.block)
          IN  judged(PlacedOn(op'.size))]_vars

(* a block that was split was the second entry of the list: the remainder
   is the second entry, after a block too small for the request *)
SplitKeepsPositionWitness ==
    /\ Inited
    /\ op.name = "malloc"
    /\ op.ret # NULL
    /\ Len(FreeList(Heap)) = 2
    /\ FreeList(Heap)[2] = op.ret - HeaderSize + SizeOf(op.ret - HeaderSize)
    /\ PrevLink(Heap, FreeList(Heap)[2]) = FreeList(Heap)[1]

(* a block that was split had an entry before it and one after it *)
SplitKeepsPositionWitnessMiddle ==
    /\ Inited
    /\ op.name = "malloc"
    /\ op.ret # NULL
    /\ Len(FreeList(Heap)) = 3
    /\ FreeList(Heap)[2] = op.ret - HeaderSize + SizeOf(op.ret - HeaderSize)

-----------------------------------------------------------------------------
(* the number of 8-byte words mm_malloc(size) asks extend_heap for *)
ExtendWords(size) ==
    LET asize == AdjustedSize(size)
        extendsize == IF GtInt(asize, CHUNKSIZE) THEN asize ELSE U32(CHUNKSIZE)
    IN  ExtendU64(Shr3(extendsize))

(* C18: when a block is freed, or a grown block is created, whose          *)
(* physically previous block is free and whose next block is allocated,    *)
(* the merged block is the previous block, its size grows by the size of   *)
(* the block, and the sequence of free-list entries from the root is the   *)
(* same before and after.                                                  *)
Case3KeepsPosition ==
    [][/\ (op.name = "idle" /\ op'.name = "free") =>
            LET block == op'.ptr - HeaderSize
                prev_footer == Word(mem, block - HeaderSize)
                prev_block == block - prev_footer.block_size
                next_header == Word(mem, block + SizeOf(block))
            IN  (prev_footer.allocated = FREE /\ next_header.allocated = ALLOC) =>
                    /\ Word(mem', prev_block) =
                           Hdr(FREE, SizeOf(prev_block) + SizeOf(block))
                    /\ FreeList(Heap') = FreeList(Heap)
       /\ (op.name = "idle" /\ op'.name = "malloc" /\ op'.sbrk = "ok") =>
            LET prev_footer == Word(mem, Epilogue - HeaderSize)
                prev_block == Epilogue - prev_footer.block_size
                grown(e) ==
                    /\ e.block = prev_block
                    /\ GetSize(e.h, e.block) =
                           SizeOf(prev_block) + (mem_brk' - mem_brk)
                    /\ FreeList(e.h) = FreeList(Heap)
            IN  prev_footer.allocated = FREE =>
                    grown(extend_heap(Heap, ExtendWords(op'.size), TRUE))]_vars

-----------------------------------------------------------------------------
(* the sizes find_fit is asked for: the adjusted sizes of the requests,
   and sizes around the blocks the requests leave *)
FitSizes ==
    {ExtendU64(AdjustedSize(size)) : size \in Requests \ {SizeT(0)}}
        \cup {SizeT(8), SizeT(2 * MIN_BLOCK_SIZE), SizeT(CHUNKSIZE - OVERHEAD),
              SizeT(CHUNKSIZE)}

(* the first entry of list that holds asize bytes, NULL if there is none *)
FirstFit(list, asize) ==
    LET fits == {i \in 1..Len(list) : LeqInt(asize, SizeOf(list[i]))}
    IN  IF fits = {} THEN NULL
        ELSE list[CHOOSE i \in fits : \A j \in fits : i <= j]

(* C19: find_fit(a) answers the first block in free-list order from the    *)
(* root whose size is at least a, and null exactly when no free block of   *)
(* the heap has size >= a; allocate takes the block find_fit answers, and  *)
(* asks the growth primitive for memory only when no free block fits.      *)
FirstFitFound ==
    /\ [](Inited =>
            \A asize \in FitSizes :
                /\ find_fit(Heap, asize) = FirstFit(FreeList(Heap), asize)
                /\ (find_fit(Heap, asize) = NULL) <=> ~FitExists(asize))
    /\ [][(op.name = "idle" /\ op'.name = "malloc" /\ ~IsZero(op'.size)) =>
            LET asize == ExtendU64(AdjustedSize(op'.size))
            IN  /\ op'.sbrk # "none" => ~FitExists(asize)
                /\ FitExists(asize) =>
                       op'.ret = FirstFit(FreeList(Heap), asize) + HeaderSize]_vars

(* allocate(16) has taken the block at the root of the list, a freed block
   of 32 bytes in front of an allocated block, while the larger block after
   it in the list holds the request as well *)
FirstFitFoundWitness ==
    /\ Inited
    /\ op.name = "malloc"
    /\ op.size = SizeT(16)
    /\ op.sbrk = "none"
    /\ op.ret # NULL
    /\ Word(mem, op.ret - HeaderSize + MIN_BLOCK_SIZE).allocated = ALLOC
    /\ Len(FreeList(Heap)) = 1
    /\ SizeOf(FreeList(Heap)[1]) > MIN_BLOCK_SIZE
    /\ FreeList(Heap)[1] > op.ret
    /\ calls > 2

-----------------------------------------------------------------------------
(* The free list of the state is a proper doubly linked list. *)
ProperList ==
    LET list == FreeList(Heap)
        n == Len(list)
    IN  /\ (n = 0) <=> (freerootptr = NULL)
        /\ n > 0 => /\ PrevLink(Heap, list[1]) = NULL
                    /\ NextLink(Heap, list[n]) = NULL
        /\ \A i \in 1..n :
               /\ i < n => PrevLink(Heap, list[i + 1]) = list[i]
               /\ NextLink(Heap, list[i]) # list[i]
               /\ PrevLink(Heap, list[i]) # list[i]
               /\ list[i] \in FreeBlocks
        /\ Cardinality(Range(list)) = n

(* C20: after every public operation the free list is a proper doubly      *)
(* linked list: the root's prev is null, the last entry's next is null,    *)
(* b.next = c implies c.prev = b, no entry links to itself or to an        *)
(* allocated or absorbed block, and the chain from the root is acyclic.    *)
WellFormedList == Inited => ProperList

-----------------------------------------------------------------------------
(* The caller that exercises the branches of coalesce: small blocks, more   *)
(* of them live and more calls than under Spec.                            *)

ListLive == 6
ListCalls == 11

(* The branch coalesce(block) takes on the heap h: the case, and for case 4
   the order of the two neighbours in the free list and the branch taken
   for the root. *)
CoalesceBranch(h, block) ==
    LET prev_footer == block - HeaderSize
        next_block == block + GetSize(h, block)
        prev_alloc == GetAlloc(h, prev_footer) # 0
        next_alloc == GetAlloc(h, next_block) # 0
        prev_block == prev_footer - GetSize(h, prev_footer) + HeaderSize
    IN  IF prev_alloc /\ next_alloc THEN "1"
        ELSE IF prev_alloc /\ ~next_alloc THEN "2"
        ELSE IF ~prev_alloc /\ next_alloc THEN "3"
        ELSE IF GET_NEXT(h, prev_block) = next_block
        THEN IF GET_PREV(h, prev_block) = NULL /\ GET_NEXT(h, next_block) = NULL
             THEN "4a-alone" ELSE "4a-head"
        ELSE IF GET_NEXT(h, next_block) = prev_block
        THEN IF GET_PREV(h, next_block) = NULL /\ GET_NEXT(h, prev_block) = NULL
             THEN "4b-alone"
             ELSE IF GET_PREV(h, next_block) = NULL THEN "4b-root"
             ELSE "4b-head"
        ELSE IF prev_block # h.freerootptr /\ next_block # h.freerootptr
        THEN "4c-neither"
        ELSE IF prev_block = h.freerootptr THEN "4c-prev-root"
        ELSE "4c-next-root"

(* requests of 16 and 17 bytes: blocks of 32 and 40 bytes *)
ListRequests == {SizeT(16), SizeT(17)}

RunningList == Inited /\ op = Idle /\ calls < ListCalls

MallocSmall ==
    /\ RunningList
    /\ Cardinality(live) < ListLive
    /\ \E size \in ListRequests : \E avail \in Answers(size) :
        MallocOf(size, avail)

(* mm_free, the caller keeping the branch coalesce took *)
FreeTraced ==
    /\ RunningList
    /\ \E p \in live :
        /\ SetHeap(Forget(mm_free(Heap, p)))
        /\ live' = live \ {p}
        /\ op' = [name |-> "free", size |-> SizeT(0), ptr |-> p, ret |-> NULL,
                  sbrk |-> "none", exited |-> FALSE,
                  branch |-> CoalesceBranch(Heap, p - HeaderSize)]
        /\ calls' = calls + 1

NextList == MmInit \/ MallocSmall \/ FreeTraced \/ Return

SpecList == Init /\ [][NextList]_vars

(* free has returned after coalesce took branch b *)
Branched(b) == Inited /\ op.name = "free" /\ op.branch = b /\ ProperList

WellFormedWitness4cNeither == Branched("4c-neither")
WellFormedWitness4cPrevRoot == Branched("4c-prev-root")
WellFormedWitness4cNextRoot == Branched("4c-next-root")
WellFormedWitness4aAlone == Branched("4a-alone")
WellFormedWitness4aHead == Branched("4a-head")
WellFormedWitness4bAlone == Branched("4b-alone")
WellFormedWitness4bRoot == Branched("4b-root")
WellFormedWitness4bHead == Branched("4b-head")
WellFormedWitness1 == Branched("1")
WellFormedWitness2 == Branched("2")
WellFormedWitness3 == Branched("3")

-----------------------------------------------------------------------------
(* the sum of the block sizes of the blocks in s *)
RECURSIVE SumSizes(_)
SumSizes(s) == IF s = << >> THEN 0 ELSE SizeOf(Head(s)) + SumSizes(Tail(s))

(* the bytes the growth primitive has granted *)
Granted == mem_brk - mem_start_brk

(* C21: in every state after initialize, the walk from the block after the *)
(* prologue, each block's size further, visits only blocks whose size is a *)
(* multiple of 8 and at least 32, each starting where the one before it    *)
(* ends, and arrives exactly at the epilogue header, size 0 and allocated, *)
(* at the top of the granted region; the sizes of the visited blocks sum   *)
(* to the bytes granted minus 16.                                          *)
HeapTiling ==
    Inited =>
        LET blocks == Blocks(Heap)
            n == Len(blocks)
        IN  /\ n > 0
            /\ blocks[1] = prologue + Word(mem, prologue).block_size
            /\ \A i \in 1..n :
                   /\ SizeOf(blocks[i]) % 8 = 0
                   /\ SizeOf(blocks[i]) >= MIN_BLOCK_SIZE
                   /\ i < n => blocks[i + 1] = blocks[i] + SizeOf(blocks[i])
            /\ blocks[n] + SizeOf(blocks[n]) = Epilogue
            /\ Word(mem, Epilogue) = Hdr(ALLOC, 0)
            /\ SumSizes(blocks) = Granted - OVERHEAD

(* the heap has grown to two chunks, blocks have been split off, and a
   block has just been freed: the walk visits four blocks or more, two of
   them or more free *)
HeapTilingWitness ==
    /\ Inited
    /\ Granted = 2 * CHUNKSIZE
    /\ op.name = "free"
    /\ Len(Blocks(Heap)) >= 4
    /\ Cardinality(FreeBlocks) >= 2

=============================================================================
